---- MODULE Spec2Model ----
(***************************************************************************)
(* Model of the aggregate registry of eventhorizon (aggregate.go):         *)
(* RegisterAggregate and CreateAggregate called concurrently by several    *)
(* goroutines, the map `aggregates` and the sync.RWMutex `aggregatesMu`    *)
(* guarding it.                                                            *)
(*                                                                         *)
(* A panic is modelled as the call ending in the position "r_panic" after  *)
(* its deferred calls ran; the caller recovers (as a test does) and may    *)
(* issue further calls.                                                    *)
(***************************************************************************)
EXTENDS Integers, Sequences, FiniteSets, TLC

\* ------------------------------------------------------------------ bounds
NumProcs == 2
NumUUIDs == 2
MaxInitialVersion == 1
MaxVersion == 4
MaxUncommitted == 3

Procs == 1..NumProcs
UUID  == 1..NumUUIDs

\* ------------------------------------------------------------- data values
\* AggregateType values used as map keys; "" is the empty type.
EmptyType == ""
AggregateType == {EmptyType, "A", "B"}

\* The type names CreateAggregate is called with. Each of them is
\* unregistered in some reachable states and registered in others.
CreateTypes == {"A", "B"}

\* The nil Aggregate interface value.
Nil == [type |-> "nil", id |-> 0, by |-> "nil"]

\* The absent map entry / no factory.
NoFactory == "none"

\* The factory functions passed to RegisterAggregate.
\*   fA     : a factory of type "A"
\*   fB     : a factory of type "B"
\*   fNil   : always returns nil
\*   fEmpty : its aggregate reports the empty type
\*   fFlaky : another factory of type "A", which returns nil for every
\*            id but 1
Factories == {"fA", "fB", "fNil", "fEmpty", "fFlaky"}

\* factory(id): the Aggregate the factory returns for id. `by` records
\* which factory built the instance.
Invoke(f, i) ==
    CASE f = "fA"     -> [type |-> "A", id |-> i, by |-> f]
      [] f = "fB"     -> [type |-> "B", id |-> i, by |-> f]
      [] f = "fNil"   -> Nil
      [] f = "fEmpty" -> [type |-> EmptyType, id |-> i, by |-> f]
      [] f = "fFlaky" -> IF i = 1 THEN [type |-> "A", id |-> i, by |-> f] ELSE Nil
      [] OTHER        -> Nil

\* Error values of CreateAggregate and panic causes of RegisterAggregate.
NoErr == "nil"
ErrAggregateNotRegistered == "aggregate not registered"
PanicNil == "eventhorizon: created aggregate is nil"
PanicEmpty == "eventhorizon: attempt to register empty aggregate type"
PanicDuplicate == "eventhorizon: registering duplicate types"

NoProc == 0

\* Events: a type tag and a payload. UnknownEvent is a type the concrete
\* aggregate does not know how to apply.
UnknownEvent == "Unknown"
EventType == {"OrderPlaced", "ItemAdded", UnknownEvent}
EventData == {"d1", "d2"}
Events == [type : EventType, data : EventData]
NoEvent == [type |-> "none", data |-> "none"]
ErrApply == "cannot apply event"

\* ------------------------------------------------------------------- state
VARIABLES
    aggregates,        \* the registry map: AggregateType -> factory or NoFactory
    muWriter,          \* aggregatesMu: goroutine that called Lock (pending or holding)
    muReaders,         \* aggregatesMu: goroutines holding the read lock
    pc,                \* position of each goroutine
    factory,           \* RegisterAggregate: parameter; CreateAggregate: looked-up factory
    aggregate,         \* CreateAggregate: returned aggregate
    aggregateType,     \* RegisterAggregate: probe's type; CreateAggregate: parameter
    id,                \* CreateAggregate: parameter
    err,               \* CreateAggregate: returned error; RegisterAggregate: panic value
    acquired,          \* history: the call has acquired aggregatesMu
    invoked,           \* history: how often the call has invoked a factory
    \* one aggregate instance, driven through the Aggregate interface
    aggregateID,       \* AggregateID()
    version,           \* Version()
    uncommittedEvents, \* UncommittedEvents()
    initialVersion,    \* history: the version the instance started with
    applied,           \* history: number of successful ApplyEvent calls
    lastOp,            \* history: the last operation called on the instance
    lastErr,           \* the error of the last ApplyEvent
    lastEvent          \* the event returned by the last StoreEvent

regVars == <<aggregates, muWriter, muReaders, pc, factory, aggregate,
             aggregateType, id, err, acquired, invoked>>

aggVars == <<aggregateID, version, uncommittedEvents, initialVersion, applied,
             lastOp, lastErr, lastEvent>>

vars == <<regVars, aggVars>>

muVars == <<muWriter, muReaders>>

Idle(p) == pc[p] \in {"idle", "r_done", "r_panic", "c_done"}

RegistryInit ==
    /\ aggregates = [t \in AggregateType |-> NoFactory]
    /\ muWriter = NoProc
    /\ muReaders = {}
    /\ pc = [p \in Procs |-> "idle"]
    /\ factory = [p \in Procs |-> NoFactory]
    /\ aggregate = [p \in Procs |-> Nil]
    /\ aggregateType = [p \in Procs |-> EmptyType]
    /\ id = [p \in Procs |-> 0]
    /\ err = [p \in Procs |-> NoErr]
    /\ acquired = [p \in Procs |-> FALSE]
    /\ invoked = [p \in Procs |-> 0]

\* An instance as a constructor or a rehydration hands it over: some
\* identifier, some initial version, nothing uncommitted.
InstanceInit(i, v0) ==
    /\ aggregateID = i
    /\ version = v0
    /\ initialVersion = v0
    /\ uncommittedEvents = << >>
    /\ applied = 0
    /\ lastOp = "none"
    /\ lastErr = NoErr
    /\ lastEvent = NoEvent

Init ==
    /\ RegistryInit
    /\ InstanceInit(1, 0)

\* Mutation: Lock() does not exclude other writers.
MuLockAnnounceNoExclusion(p) ==
    /\ muWriter' = p
    /\ UNCHANGED muReaders

\* ---------------------------------------------------------- sync.RWMutex
\* Lock(): first excludes other writers and announces the pending writer
\* (new readers block from now on), then waits for active readers to leave.
MuLockAnnounce(p) ==
    /\ muWriter = NoProc
    /\ muWriter' = p
    /\ UNCHANGED muReaders

MuLockAcquire(p) ==
    /\ muWriter = p
    /\ muReaders = {}
    /\ UNCHANGED muVars

\* Mutation: Unlock() returns without giving the lock up.
MuUnlockLeak(p) ==
    /\ UNCHANGED muVars

MuUnlock(p) ==
    /\ muWriter' = NoProc
    /\ UNCHANGED muReaders

\* Mutation: RLock() does not wait for a writer.
MuRLockIgnoresWriter(p) ==
    /\ muReaders' = muReaders \cup {p}
    /\ UNCHANGED muWriter

\* Mutation: RLock() of a plain mutex, which admits one reader at a time.
MuRLockExclusive(p) ==
    /\ muWriter = NoProc
    /\ muReaders = {}
    /\ muReaders' = muReaders \cup {p}
    /\ UNCHANGED muWriter

\* RLock(): blocks while a writer is pending or holds the lock.
MuRLock(p) ==
    /\ muWriter = NoProc
    /\ muReaders' = muReaders \cup {p}
    /\ UNCHANGED muWriter

\* Mutation: RUnlock() returns without leaving the readers.
MuRUnlockLeak(p) ==
    /\ UNCHANGED muVars

MuRUnlock(p) ==
    /\ muReaders' = muReaders \ {p}
    /\ UNCHANGED muWriter

\* Mutation: the lock is taken on entry, before the probe is built.
RegisterCallLocksFirst(p, f) ==
    /\ Idle(p)
    /\ muWriter = NoProc
    /\ muReaders = {}
    /\ muWriter' = p
    /\ UNCHANGED muReaders
    /\ pc' = [pc EXCEPT ![p] = "r_probe"]
    /\ factory' = [factory EXCEPT ![p] = f]
    /\ aggregate' = [aggregate EXCEPT ![p] = Nil]
    /\ aggregateType' = [aggregateType EXCEPT ![p] = EmptyType]
    /\ id' = [id EXCEPT ![p] = 0]
    /\ err' = [err EXCEPT ![p] = NoErr]
    /\ acquired' = [acquired EXCEPT ![p] = TRUE]
    /\ invoked' = [invoked EXCEPT ![p] = 0]
    /\ UNCHANGED aggregates
    /\ UNCHANGED aggVars

\* ------------------------------------------------------ RegisterAggregate
\* A goroutine calls RegisterAggregate(f).
RegisterCall(p, f) ==
    /\ Idle(p)
    /\ pc' = [pc EXCEPT ![p] = "r_probe"]
    /\ factory' = [factory EXCEPT ![p] = f]
    /\ aggregate' = [aggregate EXCEPT ![p] = Nil]
    /\ aggregateType' = [aggregateType EXCEPT ![p] = EmptyType]
    /\ id' = [id EXCEPT ![p] = 0]
    /\ err' = [err EXCEPT ![p] = NoErr]
    /\ acquired' = [acquired EXCEPT ![p] = FALSE]
    /\ UNCHANGED <<aggregates, muVars>>
    /\ invoked' = [invoked EXCEPT ![p] = 0]
    /\ UNCHANGED aggVars

\* Mutation: the check of the empty type is missing.
RegisterProbeNoEmptyCheck(p) ==
    /\ pc[p] = "r_probe"
    /\ \E u \in UUID :
          LET probe == Invoke(factory[p], u) IN
          IF probe = Nil
             THEN /\ err' = [err EXCEPT ![p] = PanicNil]
                  /\ pc' = [pc EXCEPT ![p] = "r_panic"]
                  /\ factory' = [factory EXCEPT ![p] = NoFactory]
                  /\ UNCHANGED aggregateType
             ELSE /\ aggregateType' = [aggregateType EXCEPT ![p] = probe.type]
                  /\ pc' = [pc EXCEPT ![p] = "r_lock"]
                  /\ UNCHANGED <<err, factory>>
    /\ UNCHANGED <<aggregates, muVars, aggregate, id, acquired>>
    /\ invoked' = [invoked EXCEPT ![p] = invoked[p] + 1]
    /\ UNCHANGED aggVars

\* aggregate := factory(NewUUID()), and the two checks of the probe:
\*   if aggregate == nil { panic(...) }
\*   aggregateType := aggregate.AggregateType()
\*   if aggregateType == AggregateType("") { panic(...) }
\* These statements touch nothing but the call's own locals. The probe is
\* not read again after its type was taken, so it is not kept.
RegisterProbe(p) ==
    /\ pc[p] = "r_probe"
    /\ \E u \in UUID :
          LET probe == Invoke(factory[p], u) IN
          IF probe = Nil
             THEN /\ err' = [err EXCEPT ![p] = PanicNil]
                  /\ pc' = [pc EXCEPT ![p] = "r_panic"]
                  /\ factory' = [factory EXCEPT ![p] = NoFactory]
                  /\ UNCHANGED aggregateType
             ELSE IF probe.type = EmptyType
                     THEN /\ err' = [err EXCEPT ![p] = PanicEmpty]
                          /\ pc' = [pc EXCEPT ![p] = "r_panic"]
                          /\ factory' = [factory EXCEPT ![p] = NoFactory]
                          /\ UNCHANGED aggregateType
                     ELSE /\ aggregateType' = [aggregateType EXCEPT ![p] = probe.type]
                          /\ pc' = [pc EXCEPT ![p] = "r_lock"]
                          /\ UNCHANGED <<err, factory>>
    /\ UNCHANGED <<aggregates, muVars, aggregate, id, acquired>>
    /\ invoked' = [invoked EXCEPT ![p] = invoked[p] + 1]
    /\ UNCHANGED aggVars

\* aggregatesMu.Lock(), first half: become the pending writer.
RegisterLock(p) ==
    /\ pc[p] = "r_lock"
    /\ MuLockAnnounce(p)
    /\ pc' = [pc EXCEPT ![p] = "r_lockwait"]
    /\ UNCHANGED <<aggregates, factory, aggregate, aggregateType, id, err, acquired>>
    /\ UNCHANGED invoked
    /\ UNCHANGED aggVars

\* aggregatesMu.Lock(), second half: the readers have left, Lock returns;
\* defer aggregatesMu.Unlock() is registered.
RegisterLocked(p) ==
    /\ pc[p] = "r_lockwait"
    /\ MuLockAcquire(p)
    /\ pc' = [pc EXCEPT ![p] = "r_check"]
    /\ acquired' = [acquired EXCEPT ![p] = TRUE]
    /\ UNCHANGED <<aggregates, factory, aggregate, aggregateType, id, err>>
    /\ UNCHANGED invoked
    /\ UNCHANGED aggVars

\* Mutation: Unlock is not deferred, the duplicate panic leaves the
\* function with the lock held.
RegisterDupCheckNoDefer(p) ==
    /\ pc[p] = "r_check"
    /\ IF aggregates[aggregateType[p]] # NoFactory
          THEN /\ err' = [err EXCEPT ![p] = PanicDuplicate]
               /\ pc' = [pc EXCEPT ![p] = "r_panic"]
               /\ factory' = [factory EXCEPT ![p] = NoFactory]
               /\ aggregateType' = [aggregateType EXCEPT ![p] = EmptyType]
          ELSE /\ pc' = [pc EXCEPT ![p] = "r_insert"]
               /\ UNCHANGED <<err, factory, aggregateType>>
    /\ UNCHANGED <<aggregates, muVars, aggregate, id, acquired>>
    /\ UNCHANGED invoked
    /\ UNCHANGED aggVars

\* Mutation: registering the factory that is already registered is let
\* through.
RegisterDupCheckSameAllowed(p) ==
    /\ pc[p] = "r_check"
    /\ IF /\ aggregates[aggregateType[p]] # NoFactory
          /\ aggregates[aggregateType[p]] # factory[p]
          THEN /\ err' = [err EXCEPT ![p] = PanicDuplicate]
               /\ pc' = [pc EXCEPT ![p] = "r_unlock"]
          ELSE /\ pc' = [pc EXCEPT ![p] = "r_insert"]
               /\ UNCHANGED err
    /\ UNCHANGED <<aggregates, muVars, factory, aggregate, aggregateType, id, acquired>>
    /\ UNCHANGED invoked
    /\ UNCHANGED aggVars

\* Mutation: the duplicate check is missing, the last registration wins.
RegisterDupCheckMissing(p) ==
    /\ pc[p] = "r_check"
    /\ pc' = [pc EXCEPT ![p] = "r_insert"]
    /\ UNCHANGED <<aggregates, muVars, factory, aggregate, aggregateType, id,
                   err, acquired>>
    /\ UNCHANGED invoked
    /\ UNCHANGED aggVars

\* if _, ok := aggregates[aggregateType]; ok { panic(...) }
RegisterDupCheck(p) ==
    /\ pc[p] = "r_check"
    /\ IF aggregates[aggregateType[p]] # NoFactory
          THEN /\ err' = [err EXCEPT ![p] = PanicDuplicate]
               /\ pc' = [pc EXCEPT ![p] = "r_unlock"]
          ELSE /\ pc' = [pc EXCEPT ![p] = "r_insert"]
               /\ UNCHANGED err
    /\ UNCHANGED <<aggregates, muVars, factory, aggregate, aggregateType, id, acquired>>
    /\ UNCHANGED invoked
    /\ UNCHANGED aggVars

\* aggregates[aggregateType] = factory
RegisterInsert(p) ==
    /\ pc[p] = "r_insert"
    /\ aggregates' = [aggregates EXCEPT ![aggregateType[p]] = factory[p]]
    /\ pc' = [pc EXCEPT ![p] = "r_unlock"]
    /\ UNCHANGED <<muVars, factory, aggregate, aggregateType, id, err, acquired>>
    /\ UNCHANGED invoked
    /\ UNCHANGED aggVars

\* The deferred aggregatesMu.Unlock() runs, on return and on panic alike,
\* and the call ends: its parameter and locals are gone, the panic value
\* (if any) reaches the caller.
RegisterUnlock(p) ==
    /\ pc[p] = "r_unlock"
    /\ MuUnlock(p)
    /\ pc' = [pc EXCEPT ![p] = IF err[p] = NoErr THEN "r_done" ELSE "r_panic"]
    /\ factory' = [factory EXCEPT ![p] = NoFactory]
    /\ aggregateType' = [aggregateType EXCEPT ![p] = EmptyType]
    /\ UNCHANGED <<aggregates, aggregate, id, err, acquired>>
    /\ UNCHANGED invoked
    /\ UNCHANGED aggVars

\* -------------------------------------------------------- CreateAggregate
\* A goroutine calls CreateAggregate(t, u).
CreateCall(p, t, u) ==
    /\ Idle(p)
    /\ pc' = [pc EXCEPT ![p] = "c_rlock"]
    /\ aggregateType' = [aggregateType EXCEPT ![p] = t]
    /\ id' = [id EXCEPT ![p] = u]
    /\ factory' = [factory EXCEPT ![p] = NoFactory]
    /\ aggregate' = [aggregate EXCEPT ![p] = Nil]
    /\ err' = [err EXCEPT ![p] = NoErr]
    /\ acquired' = [acquired EXCEPT ![p] = FALSE]
    /\ UNCHANGED <<aggregates, muVars>>
    /\ invoked' = [invoked EXCEPT ![p] = 0]
    /\ UNCHANGED aggVars

\* aggregatesMu.RLock(); defer aggregatesMu.RUnlock()
CreateRLock(p) ==
    /\ pc[p] = "c_rlock"
    /\ MuRLock(p)
    /\ pc' = [pc EXCEPT ![p] = "c_lookup"]
    /\ acquired' = [acquired EXCEPT ![p] = TRUE]
    /\ UNCHANGED <<aggregates, factory, aggregate, aggregateType, id, err>>
    /\ UNCHANGED invoked
    /\ UNCHANGED aggVars

\* Mutation: a missing entry is not reported, the call returns (nil, nil).
CreateLookupNoError(p) ==
    /\ pc[p] = "c_lookup"
    /\ IF aggregates[aggregateType[p]] # NoFactory
          THEN /\ factory' = [factory EXCEPT ![p] = aggregates[aggregateType[p]]]
               /\ pc' = [pc EXCEPT ![p] = "c_factory"]
          ELSE /\ pc' = [pc EXCEPT ![p] = "c_runlock"]
               /\ UNCHANGED factory
    /\ UNCHANGED <<aggregates, muVars, aggregate, aggregateType, id, err, acquired>>
    /\ UNCHANGED invoked
    /\ UNCHANGED aggVars

\* if factory, ok := aggregates[aggregateType]; ok {...}
\* return nil, ErrAggregateNotRegistered
CreateLookup(p) ==
    /\ pc[p] = "c_lookup"
    /\ IF aggregates[aggregateType[p]] # NoFactory
          THEN /\ factory' = [factory EXCEPT ![p] = aggregates[aggregateType[p]]]
               /\ pc' = [pc EXCEPT ![p] = "c_factory"]
               /\ UNCHANGED err
          ELSE /\ err' = [err EXCEPT ![p] = ErrAggregateNotRegistered]
               /\ pc' = [pc EXCEPT ![p] = "c_runlock"]
               /\ UNCHANGED factory
    /\ UNCHANGED <<aggregates, muVars, aggregate, aggregateType, id, acquired>>
    /\ UNCHANGED invoked
    /\ UNCHANGED aggVars

\* Mutation: a nil result of the factory is reported as "not registered".
CreateFactoryNilIsError(p) ==
    /\ pc[p] = "c_factory"
    /\ aggregate' = [aggregate EXCEPT ![p] = Invoke(factory[p], id[p])]
    /\ err' = [err EXCEPT ![p] = IF Invoke(factory[p], id[p]) = Nil
                                     THEN ErrAggregateNotRegistered ELSE NoErr]
    /\ pc' = [pc EXCEPT ![p] = "c_runlock"]
    /\ UNCHANGED <<aggregates, muVars, factory, aggregateType, id, acquired>>
    /\ invoked' = [invoked EXCEPT ![p] = invoked[p] + 1]
    /\ UNCHANGED aggVars

\* Mutation: the factory is called with a fixed id, not the caller's.
CreateFactoryFixedId(p) ==
    /\ pc[p] = "c_factory"
    /\ aggregate' = [aggregate EXCEPT ![p] = Invoke(factory[p], 1)]
    /\ pc' = [pc EXCEPT ![p] = "c_runlock"]
    /\ UNCHANGED <<aggregates, muVars, factory, aggregateType, id, err, acquired>>
    /\ invoked' = [invoked EXCEPT ![p] = invoked[p] + 1]
    /\ UNCHANGED aggVars

\* return factory(id), nil
CreateFactory(p) ==
    /\ pc[p] = "c_factory"
    /\ aggregate' = [aggregate EXCEPT ![p] = Invoke(factory[p], id[p])]
    /\ pc' = [pc EXCEPT ![p] = "c_runlock"]
    /\ UNCHANGED <<aggregates, muVars, factory, aggregateType, id, err, acquired>>
    /\ invoked' = [invoked EXCEPT ![p] = invoked[p] + 1]
    /\ UNCHANGED aggVars

\* The deferred aggregatesMu.RUnlock() runs and the call returns
\* (aggregate, err) to the caller: its parameters and locals are gone.
CreateRUnlock(p) ==
    /\ pc[p] = "c_runlock"
    /\ MuRUnlock(p)
    /\ pc' = [pc EXCEPT ![p] = "c_done"]
    /\ factory' = [factory EXCEPT ![p] = NoFactory]
    /\ aggregateType' = [aggregateType EXCEPT ![p] = EmptyType]
    /\ id' = [id EXCEPT ![p] = 0]
    /\ UNCHANGED <<aggregates, aggregate, err, acquired>>
    /\ UNCHANGED invoked
    /\ UNCHANGED aggVars

\* ------------------------------------------------- the Aggregate interface
\* The operations of one aggregate instance, called one at a time (the
\* instance has a single writer).

\* Mutation: the version advances by two.
IncrementVersionTwice(v) == v + 2

\* IncrementVersion(): the version advances by exactly one.
IncrementVersion(v) == v + 1

\* NewEvent: the event StoreEvent builds from its type and data.
NewEvent(t, d) == [type |-> t, data |-> d]

\* Whether the concrete aggregate can apply the event: an event of an
\* unknown type cannot be applied.
Applicable(e) == e.type # UnknownEvent

\* Mutation: the version is incremented whether or not the event applied.
VersionAfterApplyAlways(v, e) == v + 1

\* The version after ApplyEvent(ctx, e): incremented on success, and on
\* success only.
VersionAfterApply(v, e) == IF Applicable(e) THEN IncrementVersion(v) ELSE v

\* The error ApplyEvent(ctx, e) returns.
ApplyError(e) == IF Applicable(e) THEN NoErr ELSE ErrApply

\* Mutation: the new event is put in front.
Prepended(evs, e) == <<e>> \o evs

\* The uncommitted events after StoreEvent appended e.
Appended(evs, e) == Append(evs, e)

\* Mutation: the replayed event is recorded as uncommitted.
ApplyEventRecords(e) ==
    /\ version < MaxVersion
    /\ Len(uncommittedEvents) < MaxUncommitted
    /\ version' = VersionAfterApply(version, e)
    /\ lastErr' = ApplyError(e)
    /\ applied' = IF ApplyError(e) = NoErr THEN applied + 1 ELSE applied
    /\ uncommittedEvents' = Append(uncommittedEvents, e)
    /\ lastOp' = "apply"
    /\ UNCHANGED <<aggregateID, initialVersion, lastEvent>>
    /\ UNCHANGED regVars

\* ApplyEvent(ctx, e), called by the orchestrator (replay of history).
ApplyEvent(e) ==
    /\ version < MaxVersion
    /\ version' = VersionAfterApply(version, e)
    /\ lastErr' = ApplyError(e)
    /\ applied' = IF ApplyError(e) = NoErr THEN applied + 1 ELSE applied
    /\ lastOp' = "apply"
    /\ UNCHANGED <<aggregateID, uncommittedEvents, initialVersion, lastEvent>>
    /\ UNCHANGED regVars

\* StoreEvent(t, d): builds the event, appends it to the uncommitted
\* events, drives its application and returns it.
StoreEvent(t, d) ==
    /\ version < MaxVersion
    /\ Len(uncommittedEvents) < MaxUncommitted
    /\ LET e == NewEvent(t, d) IN
          /\ uncommittedEvents' = Appended(uncommittedEvents, e)
          /\ version' = VersionAfterApply(version, e)
          /\ lastErr' = ApplyError(e)
          /\ applied' = IF ApplyError(e) = NoErr THEN applied + 1 ELSE applied
          /\ lastEvent' = e
    /\ lastOp' = "store"
    /\ UNCHANGED <<aggregateID, initialVersion>>
    /\ UNCHANGED regVars

\* Mutation: clearing also resets the version.
ClearResetsVersion ==
    /\ uncommittedEvents' = << >>
    /\ version' = 0
    /\ lastOp' = "clear"
    /\ UNCHANGED <<aggregateID, initialVersion, applied, lastErr, lastEvent>>
    /\ UNCHANGED regVars

\* Version(): reads the version, changes nothing of the instance.
Version ==
    /\ lastOp' = "version"
    /\ UNCHANGED <<aggregateID, version, uncommittedEvents, initialVersion,
                   applied, lastErr, lastEvent>>
    /\ UNCHANGED regVars

\* UncommittedEvents(): reads the uncommitted events, changes nothing of
\* the instance.
UncommittedEvents ==
    /\ lastOp' = "uncommitted"
    /\ UNCHANGED <<aggregateID, version, uncommittedEvents, initialVersion,
                   applied, lastErr, lastEvent>>
    /\ UNCHANGED regVars

\* ClearUncommittedEvents()
ClearUncommittedEvents ==
    /\ uncommittedEvents' = << >>
    /\ lastOp' = "clear"
    /\ UNCHANGED <<aggregateID, version, initialVersion, applied, lastErr, lastEvent>>
    /\ UNCHANGED regVars

AggregateInit ==
    /\ RegistryInit
    /\ \E i \in UUID, v0 \in 0..MaxInitialVersion : InstanceInit(i, v0)

AggregateNext ==
    \/ \E e \in Events : ApplyEvent(e)
    \/ \E t \in EventType, d \in EventData : StoreEvent(t, d)
    \/ ClearUncommittedEvents
    \/ Version
    \/ UncommittedEvents

AggregateSpec == AggregateInit /\ [][AggregateNext]_vars

\* ------------------------------------------------------------ specification
Next ==
    \/ \E p \in Procs, f \in Factories : RegisterCall(p, f)
    \/ \E p \in Procs : RegisterProbe(p)
    \/ \E p \in Procs : RegisterLock(p)
    \/ \E p \in Procs : RegisterLocked(p)
    \/ \E p \in Procs : RegisterDupCheck(p)
    \/ \E p \in Procs : RegisterInsert(p)
    \/ \E p \in Procs : RegisterUnlock(p)
    \/ \E p \in Procs, t \in CreateTypes, u \in UUID : CreateCall(p, t, u)
    \/ \E p \in Procs : CreateRLock(p)
    \/ \E p \in Procs : CreateLookup(p)
    \/ \E p \in Procs : CreateFactory(p)
    \/ \E p \in Procs : CreateRUnlock(p)

Spec == Init /\ [][Next]_vars

\* One statement of a call in progress that waits for nothing: given the
\* processor, the goroutine executes it.
Internal(p) ==
    \/ RegisterProbe(p)
    \/ RegisterLocked(p)
    \/ RegisterDupCheck(p)
    \/ RegisterInsert(p)
    \/ RegisterUnlock(p)
    \/ CreateLookup(p)
    \/ CreateFactory(p)
    \/ CreateRUnlock(p)

\* The Go scheduler runs every runnable goroutine, and sync.RWMutex admits
\* every goroutine that keeps asking: a writer queues on the inner mutex,
\* whose starvation mode hands the lock over in arrival order, and Unlock
\* releases the readers that arrived meanwhile before the next writer.
Fairness ==
    \A p \in Procs :
        /\ WF_vars(Internal(p))
        /\ SF_vars(RegisterLock(p))
        /\ SF_vars(CreateRLock(p))

\* The registry with terminating factories under fair scheduling.
FairSpec == Init /\ [][Next]_vars /\ Fairness

\* factory(id) on line 102 never returns: the call stays inside the
\* factory for ever, with the deferred RUnlock() still pending.
CreateFactoryHang(p) ==
    /\ pc[p] = "c_factory"
    /\ pc' = [pc EXCEPT ![p] = "c_hung"]
    /\ factory' = [factory EXCEPT ![p] = NoFactory]
    /\ aggregateType' = [aggregateType EXCEPT ![p] = EmptyType]
    /\ id' = [id EXCEPT ![p] = 0]
    /\ invoked' = [invoked EXCEPT ![p] = invoked[p] + 1]
    /\ UNCHANGED <<aggregates, muVars, aggregate, err, acquired>>
    /\ UNCHANGED aggVars

\* factory(NewUUID()) on line 79 never returns: the call stays inside the
\* factory for ever, before aggregatesMu.Lock() on line 88.
RegisterProbeHang(p) ==
    /\ pc[p] = "r_probe"
    /\ pc' = [pc EXCEPT ![p] = "r_hung"]
    /\ factory' = [factory EXCEPT ![p] = NoFactory]
    /\ invoked' = [invoked EXCEPT ![p] = invoked[p] + 1]
    /\ UNCHANGED <<aggregates, muVars, aggregate, aggregateType, id, err, acquired>>
    /\ UNCHANGED aggVars

SlowNext ==
    \/ Next
    \/ \E p \in Procs : CreateFactoryHang(p)
    \/ \E p \in Procs : RegisterProbeHang(p)

\* The registry with factories that may never return, under fair
\* scheduling of everything else.
SlowSpec == Init /\ [][SlowNext]_vars /\ Fairness

TypeOK ==
    /\ aggregates \in [AggregateType -> Factories \cup {NoFactory}]
    /\ muWriter \in Procs \cup {NoProc}
    /\ muReaders \subseteq Procs
\* ------------------------------------------------------------------ claims
\* Positions in which a call holds aggregatesMu.
WriteHeld == {"r_check", "r_insert", "r_unlock"}
ReadHeld == {"c_lookup", "c_factory", "c_runlock"}

\* Goroutine p takes a step of its call.
Steps(p) == pc'[p] # pc[p]

\* f is a valid constructor of type t: for every id it returns a present
\* instance that reports type t and that id.
ValidFor(f, t) ==
    \A i \in UUID : /\ Invoke(f, i) # Nil
                    /\ Invoke(f, i).type = t
                    /\ Invoke(f, i).id = i

\* C1 (as stated): whenever CreateAggregate(T, id) returns while a factory
\* is registered under T, it returns no error and the instance that this
\* factory builds for id, whose type is T and whose id is id.
C1Original ==
    [][\A p \in Procs :
         (pc[p] = "c_runlock" /\ pc'[p] = "c_done"
            /\ aggregates[aggregateType[p]] # NoFactory)
         => /\ err'[p] = NoErr
            /\ aggregate'[p] = Invoke(aggregates[aggregateType[p]], id[p])
            /\ aggregate'[p].type = aggregateType[p]
            /\ aggregate'[p].id = id[p]]_vars

\* C1 (amended): whenever CreateAggregate(T, id) returns while a factory is
\* registered under T, it returns no error and exactly what this factory
\* returns for id; when the factory is a valid constructor of T, the
\* returned instance has type T and identifier id.
C1Theorem ==
    [][\A p \in Procs :
         (pc[p] = "c_runlock" /\ pc'[p] = "c_done"
            /\ aggregates[aggregateType[p]] # NoFactory)
         => /\ err'[p] = NoErr
            /\ aggregate'[p] = Invoke(aggregates[aggregateType[p]], id[p])
            /\ ValidFor(aggregates[aggregateType[p]], aggregateType[p])
                  => /\ aggregate'[p].type = aggregateType[p]
                     /\ aggregate'[p].id = id[p]]_vars

\* A create of "A" with id 2 has returned fA's instance, after both "A" and
\* "B" were registered.
C1Witness ==
    \E p \in Procs :
        /\ pc[p] = "c_done"
        /\ err[p] = NoErr
        /\ aggregate[p] = [type |-> "A", id |-> 2, by |-> "fA"]
        /\ aggregates["A"] = "fA"
        /\ aggregates["B"] = "fB"

\* C2: a RegisterAggregate call that finds its type already registered
\* panics with the duplicate message, whether its factory is the registered
\* one or another, and the registry keeps the entry it had.
C2Theorem ==
    [][\A p \in Procs :
         /\ (pc[p] = "r_check" /\ Steps(p)
                /\ aggregates[aggregateType[p]] # NoFactory)
            => /\ err'[p] = PanicDuplicate
               /\ pc'[p] = "r_unlock"
               /\ aggregates' = aggregates
         /\ (pc[p] = "r_unlock" /\ err[p] = PanicDuplicate)
            => /\ aggregates[aggregateType[p]] # NoFactory
               /\ aggregates' = aggregates
               /\ Steps(p) => (pc'[p] = "r_panic" /\ err'[p] = PanicDuplicate)]_vars

\* A call registering fA is panicking as a duplicate while "A" is mapped
\* to another factory, which stays.
C2Witness ==
    \E p \in Procs :
        /\ pc[p] = "r_unlock"
        /\ err[p] = PanicDuplicate
        /\ factory[p] = "fA"
        /\ aggregates["A"] = "fFlaky"

\* C3: the probe step of RegisterAggregate panics when the probe is nil or
\* reports the empty type, and goes on only with a present probe of a
\* non-empty type; a call that panicked there left the registry and the
\* lock as they were and never acquired the lock.
C3Theorem ==
    [][\A p \in Procs :
         (pc[p] = "r_probe" /\ Steps(p))
         => /\ \E u \in UUID :
                  LET probe == Invoke(factory[p], u) IN
                  \/ probe = Nil /\ pc'[p] = "r_panic" /\ err'[p] = PanicNil
                  \/ /\ probe # Nil /\ probe.type = EmptyType
                     /\ pc'[p] = "r_panic" /\ err'[p] = PanicEmpty
                  \/ /\ probe # Nil /\ probe.type # EmptyType
                     /\ pc'[p] = "r_lock" /\ err'[p] = NoErr
                     /\ aggregateType'[p] = probe.type
            /\ pc'[p] = "r_panic"
                  => /\ aggregates' = aggregates
                     /\ muVars' = muVars
                     /\ ~acquired'[p]
                     /\ muWriter # p /\ p \notin muReaders]_vars

\* One call has panicked on a nil probe and another on an empty type, with
\* "A" registered all along.
C3Witness ==
    \E p, q \in Procs :
        /\ pc[p] = "r_panic" /\ err[p] = PanicNil /\ ~acquired[p]
        /\ pc[q] = "r_panic" /\ err[q] = PanicEmpty /\ ~acquired[q]
        /\ aggregates["A"] = "fA"

\* C4: CreateAggregate of a type that is not registered returns
\* (nil, ErrAggregateNotRegistered) as values: the lookup skips the factory
\* call, the registry is unchanged and the read lock is released on return.
C4Theorem ==
    [][\A p \in Procs :
         /\ (pc[p] = "c_lookup" /\ Steps(p)
                /\ aggregates[aggregateType[p]] = NoFactory)
            => /\ pc'[p] = "c_runlock"
               /\ err'[p] = ErrAggregateNotRegistered
               /\ aggregate'[p] = Nil
               /\ aggregates' = aggregates
         /\ (pc[p] = "c_runlock" /\ Steps(p)
                /\ err[p] = ErrAggregateNotRegistered)
            => /\ pc'[p] = "c_done"
               /\ err'[p] = ErrAggregateNotRegistered
               /\ aggregate'[p] = Nil
               /\ aggregates' = aggregates
               /\ p \in muReaders /\ p \notin muReaders']_vars

\* A create has returned the not-registered error and holds no lock.
C4Witness ==
    \E p \in Procs :
        /\ pc[p] = "c_done"
        /\ err[p] = ErrAggregateNotRegistered
        /\ aggregate[p] = Nil
        /\ p \notin muReaders
        /\ aggregates["B"] = NoFactory
\* C5: the registry starts empty; an entry, once set, keeps its factory;
\* the empty type is never a key; and the registry changes only by the
\* insert step of a RegisterAggregate call that has not panicked, which adds
\* one new key.
C5Theorem ==
    /\ \A t \in AggregateType : aggregates[t] = NoFactory
    /\ [][/\ \A t \in AggregateType :
               aggregates[t] # NoFactory => aggregates'[t] = aggregates[t]
          /\ aggregates'[EmptyType] = NoFactory
          /\ aggregates' # aggregates
                => \E p \in Procs :
                      /\ pc[p] = "r_insert" /\ pc'[p] = "r_unlock"
                      /\ err[p] = NoErr
                      /\ aggregates[aggregateType[p]] = NoFactory
                      /\ aggregates' =
                            [aggregates EXCEPT ![aggregateType[p]] = factory[p]]
                      /\ factory[p] # NoFactory]_vars

\* Both types are registered, a duplicate registration has panicked and
\* a registration of the empty type has panicked.
C5Witness ==
    /\ aggregates["A"] = "fA"
    /\ aggregates["B"] = "fB"
    /\ aggregates[EmptyType] = NoFactory
    /\ \E p, q \in Procs :
          /\ pc[p] = "r_panic" /\ err[p] = PanicDuplicate
          /\ pc[q] = "r_panic" /\ err[q] = PanicEmpty

\* C6: of the register calls for one type, only a call that found the
\* type unregistered inserts, it is alone under the lock from its check to
\* its insert, and every call that finds the type registered panics as a
\* duplicate: no insert overwrites an entry.
C6Theorem ==
    [][\A p \in Procs :
         /\ (pc[p] = "r_insert" /\ Steps(p))
            => /\ aggregates[aggregateType[p]] = NoFactory
               /\ aggregates'[aggregateType[p]] = factory[p]
               /\ \A q \in Procs \ {p} : pc[q] \notin WriteHeld
         /\ (pc[p] = "r_check" /\ Steps(p))
            => IF aggregates[aggregateType[p]] = NoFactory
                  THEN pc'[p] = "r_insert" /\ err'[p] = NoErr
                  ELSE pc'[p] = "r_unlock" /\ err'[p] = PanicDuplicate
         /\ (pc[p] = "r_check" /\ ~Steps(p))
            => aggregates' = aggregates]_vars

\* Two calls register type "A" at the same time: one has inserted its
\* factory and still holds the lock, the other is waiting for the lock.
C6Witness ==
    \E p, q \in Procs :
        /\ p # q
        /\ pc[p] = "r_unlock" /\ err[p] = NoErr /\ aggregateType[p] = "A"
        /\ aggregates["A"] = factory[p]
        /\ pc[q] = "r_lock" /\ aggregateType[q] = "A"
        /\ factory[q] # factory[p]

\* C7: while a register call holds aggregatesMu, no other register call
\* and no create call holds it, and the mutex records it as the one writer
\* with no reader.
C7Theorem ==
    \A p \in Procs :
        pc[p] \in WriteHeld
        => /\ \A q \in Procs \ {p} : pc[q] \notin WriteHeld \cup ReadHeld
           /\ muWriter = p
           /\ muReaders = {}

\* A register call is between its check and its insert of "A" while a
\* create of "A" waits for the read lock.
C7Witness ==
    \E p, q \in Procs :
        /\ pc[p] = "r_insert" /\ aggregateType[p] = "A"
        /\ pc[q] = "c_rlock" /\ aggregateType[q] = "A"

\* C8: a create call at RLock can take the read lock whenever no register
\* call holds or awaits the lock, whatever other create calls hold it; the
\* readers recorded by the mutex are exactly the create calls in the read
\* locked section; and a create that looked up a registered type returns
\* no error.
C8Theorem ==
    /\ \A p \in Procs :
          (pc[p] = "c_rlock" /\ muWriter = NoProc) => ENABLED CreateRLock(p)
    /\ muReaders = {p \in Procs : pc[p] \in ReadHeld}
    /\ \A p \in Procs :
          (pc[p] = "c_runlock" /\ aggregates[aggregateType[p]] # NoFactory)
          => err[p] = NoErr

\* Every goroutine is inside the read locked section at once, on the
\* same type or on distinct types, each with a result and no error.
C8Witness ==
    /\ \A p \in Procs : pc[p] = "c_runlock" /\ err[p] = NoErr /\ aggregate[p] # Nil
    /\ \E p, q \in Procs : p # q /\ aggregateType[p] # aggregateType[q]

\* C9: the version of an instance equals its initial version plus the
\* number of successful ApplyEvent calls; it changes only by +1, and only
\* in a step that applied one event successfully.
C9Theorem ==
    /\ [](version = initialVersion + applied)
    /\ [][/\ version' >= version
          /\ version' # version
                => /\ version' = version + 1
                   /\ applied' = applied + 1
                   /\ lastErr' = NoErr
                   /\ lastOp' \in {"apply", "store"}
          /\ applied' # applied => version' = version + 1]_vars

\* An instance that started at version 1 has had two events applied,
\* and an application has just failed.
C9Witness ==
    /\ initialVersion = 1
    /\ applied = 2
    /\ version = 3
    /\ lastOp = "apply"
    /\ lastErr = ErrApply

C11Theorem ==
    /\ [](ENABLED ClearUncommittedEvents)
    /\ [](lastOp = "clear" => uncommittedEvents = << >>)
    /\ [][lastOp' = "clear"
            => /\ uncommittedEvents' = << >>
               /\ version' = version
               /\ aggregateID' = aggregateID
               /\ lastOp = "clear" => UNCHANGED aggVars]_vars

\* The uncommitted events were cleared after one applied and one stored
\* event: nothing is uncommitted and the version is still 2.
C11Witness ==
    /\ lastOp = "clear"
    /\ uncommittedEvents = << >>
    /\ initialVersion = 0
    /\ version = 2
    /\ lastEvent # NoEvent

\* C12: an ApplyEvent that fails returns its error and leaves the version,
\* the uncommitted events and the identifier as they were; the application
\* that StoreEvent drives leaves the version as it was when it fails.
C12Theorem ==
    [][/\ (lastOp' = "apply" /\ lastErr' # NoErr)
            => /\ lastErr' = ErrApply
               /\ version' = version
               /\ uncommittedEvents' = uncommittedEvents
               /\ aggregateID' = aggregateID
               /\ applied' = applied
       /\ (lastOp' = "store" /\ lastErr' # NoErr)
            => /\ version' = version
               /\ aggregateID' = aggregateID]_vars

\* An application has just failed on an instance that has applied events
\* and holds uncommitted ones.
C12Witness ==
    /\ lastOp = "apply"
    /\ lastErr = ErrApply
    /\ version = initialVersion + 2
    /\ Len(uncommittedEvents) = 1

\* C15: the uncommitted events change only by StoreEvent, which appends
\* one event at the end, and by ClearUncommittedEvents, which empties them;
\* ApplyEvent, Version and UncommittedEvents leave them as they are, and
\* Version and UncommittedEvents leave the version too. An instance that
\* started at version 0 and has only had events applied has the number of
\* applied events as its version and nothing uncommitted.
C15Theorem ==
    /\ []((lastEvent = NoEvent /\ initialVersion = 0)
             => (uncommittedEvents = << >> /\ version = applied))
    /\ [][/\ lastOp' \in {"apply", "version", "uncommitted"}
                => uncommittedEvents' = uncommittedEvents
          /\ lastOp' \in {"version", "uncommitted"} => version' = version
          /\ uncommittedEvents' # uncommittedEvents
                => \/ /\ lastOp' = "store"
                      /\ Len(uncommittedEvents') = Len(uncommittedEvents) + 1
                      /\ SubSeq(uncommittedEvents', 1, Len(uncommittedEvents))
                            = uncommittedEvents
                   \/ /\ lastOp' = "clear"
                      /\ uncommittedEvents' = << >>]_vars

\* Three events were replayed on a fresh instance, no event was ever
\* stored: version 3, nothing uncommitted.
C15Witness ==
    /\ initialVersion = 0
    /\ lastEvent = NoEvent
    /\ lastOp = "apply"
    /\ applied = 3
    /\ version = 3
    /\ uncommittedEvents = << >>

\* C13: a RegisterAggregate call invokes its factory exactly once, in the
\* probe step, which it takes before it has acquired or asked for the lock;
\* it asks for the lock only with a validated, non-empty type; and while it
\* is the writer of the lock it is waiting for it or at the duplicate
\* check, the insert or the unlock: no factory runs under the write lock.
C13Theorem ==
    /\ [](\A p \in Procs :
            /\ pc[p] = "r_probe"
                 => invoked[p] = 0 /\ ~acquired[p] /\ muWriter # p
            /\ pc[p] \in {"r_lock", "r_lockwait", "r_check", "r_insert",
                           "r_unlock", "r_done", "r_panic"}
                 => invoked[p] = 1
            /\ pc[p] \in {"r_lock", "r_lockwait"}
                 => ~acquired[p] /\ aggregateType[p] # EmptyType
            /\ pc[p] \in WriteHeld
                 => acquired[p] /\ aggregateType[p] # EmptyType
            /\ muWriter = p => pc[p] \in WriteHeld \cup {"r_lockwait"})
    /\ [][\A p \in Procs :
             invoked'[p] > invoked[p]
             => muWriter # p /\ muWriter' # p /\ invoked'[p] = invoked[p] + 1]_vars

\* One call holds the write lock between check and insert, having probed
\* once, while another call is about to run its probe without the lock.
C13Witness ==
    \E p, q \in Procs :
        /\ pc[p] = "r_insert" /\ invoked[p] = 1 /\ muWriter = p
        /\ pc[q] = "r_probe" /\ invoked[q] = 0

\* C16 (as stated): a CreateAggregate call that has returned gave either a
\* present instance and no error, or nil and ErrAggregateNotRegistered.
C16Original ==
    \A p \in Procs :
        pc[p] = "c_done"
        => \/ aggregate[p] # Nil /\ err[p] = NoErr
           \/ aggregate[p] = Nil /\ err[p] = ErrAggregateNotRegistered

\* C16 (amended): a CreateAggregate call returns either what the registered
\* factory returns for the id, with no error, or nil with
\* ErrAggregateNotRegistered when the type has no factory; so it returns
\* nil with no error exactly when the registered factory returns nil for
\* that id.
C16Theorem ==
    \A p \in Procs :
        /\ pc[p] = "c_runlock"
             => IF aggregates[aggregateType[p]] # NoFactory
                   THEN /\ err[p] = NoErr
                        /\ aggregate[p] = Invoke(aggregates[aggregateType[p]], id[p])
                        /\ invoked[p] = 1
                   ELSE /\ err[p] = ErrAggregateNotRegistered
                        /\ aggregate[p] = Nil
                        /\ invoked[p] = 0
        /\ pc[p] = "c_done"
             => \/ err[p] = NoErr /\ invoked[p] = 1
                \/ err[p] = ErrAggregateNotRegistered /\ aggregate[p] = Nil
                      /\ invoked[p] = 0

\* A create of "A", registered with a factory whose probe was present,
\* has returned nil and no error.
C16Witness ==
    \E p \in Procs :
        /\ pc[p] = "c_done"
        /\ err[p] = NoErr
        /\ aggregate[p] = Nil
        /\ aggregates["A"] = "fFlaky"

\* C17: the lock is held or awaited only by calls in progress: its writer
\* is a register call between Lock and Unlock, its readers are create
\* calls between RLock and RUnlock; a call that panicked does not hold
\* it, and when no call is in progress the lock is free.
C17Theorem ==
    /\ \A p \in Procs :
          /\ muWriter = p => pc[p] \in WriteHeld \cup {"r_lockwait"}
          /\ p \in muReaders => pc[p] \in ReadHeld
    /\ (\A p \in Procs : Idle(p)) => (muWriter = NoProc /\ muReaders = {})

\* A registration has panicked as a duplicate after holding the lock;
\* afterwards no call is in progress, the lock is free, and the other
\* goroutine has completed a create.
C17Witness ==
    \E p, q \in Procs :
        /\ pc[p] = "r_panic" /\ err[p] = PanicDuplicate /\ acquired[p]
        /\ pc[q] = "c_done" /\ err[q] = NoErr
        /\ muWriter = NoProc /\ muReaders = {}

\* A call in progress that cannot take its next step because it waits for
\* aggregatesMu.
WaitsForLock(p) ==
    \/ pc[p] = "r_lock" /\ muWriter # NoProc
    \/ pc[p] = "r_lockwait" /\ muReaders # {}
    \/ pc[p] = "c_rlock" /\ muWriter # NoProc

\* C14 (as stated): a register call waiting for the exclusive lock
\* eventually obtains it, also when a factory invoked by a create never
\* returns.
C14Original ==
    \A p \in Procs :
        (pc[p] \in {"r_lock", "r_lockwait"}) ~> (pc[p] = "r_check")

\* C14 (amended): a register call that holds the exclusive lock always
\* releases it, and a factory that hangs in register holds and requests no
\* lock; a create call that holds the shared lock releases it unless its
\* factory never returns, in which case it holds it for ever; a register
\* call waiting for the exclusive lock eventually obtains it unless the
\* factory of some create call never returns.
C14Theorem ==
    /\ \A p \in Procs : (muWriter = p /\ pc[p] \in WriteHeld) ~> (muWriter # p)
    /\ \A p \in Procs : (p \in muReaders) ~> (p \notin muReaders \/ pc[p] = "c_hung")
    /\ \A p \in Procs :
          (pc[p] \in {"r_lock", "r_lockwait"})
             ~> (pc[p] = "r_check" \/ \E q \in Procs : pc[q] = "c_hung")
    /\ [](\A p \in Procs :
            /\ pc[p] = "c_hung" => p \in muReaders
            /\ pc[p] = "r_hung" => muWriter # p /\ ~acquired[p])
    /\ [][\A p \in Procs : pc[p] = "c_hung" => pc'[p] = "c_hung"]_vars

\* A register call has asked for the exclusive lock and waits for a create
\* call whose factory never returns.
C14Witness ==
    \E p, q \in Procs :
        /\ pc[p] = "r_lockwait" /\ muWriter = p
        /\ pc[q] = "c_hung" /\ q \in muReaders

\* C18: with terminating factories and fair scheduling every call in
\* progress eventually completes, and in no reachable state do all the
\* calls in progress wait for the lock.
C18Theorem ==
    /\ \A p \in Procs : (~Idle(p)) ~> Idle(p)
    /\ []((\E p \in Procs : ~Idle(p))
            => \E p \in Procs : ~Idle(p) /\ ~WaitsForLock(p))
    /\ [](\A p \in Procs :
            /\ WaitsForLock(p) => ~Idle(p)
            /\ (~Idle(p) /\ ~WaitsForLock(p))
                 => ENABLED (Internal(p) \/ RegisterLock(p) \/ CreateRLock(p)))

\* A create call waits for the lock behind a register call that waits for
\* nothing; with a third goroutine, the register call itself may wait for
\* a reader.
C18Witness ==
    \E p, q \in Procs :
        /\ pc[p] = "c_rlock" /\ WaitsForLock(p)
        /\ muWriter = q /\ pc[q] \in WriteHeld
====
